---- MODULE Spec2Model ----
(***************************************************************************)
(* The quiz session controller of controller/phase2/quiz/QuizController.py *)
(* as a state machine: one session thread (QuizController.run), one        *)
(* producer calling handle_code, and an external caller of stop().         *)
(*                                                                         *)
(* The session thread is split into one action per access to the state it *)
(* shares with the other threads (__alive, __received_answer); a blocking  *)
(* audio cue is the action that emits it, and the other threads run        *)
(* between the actions.                                                    *)
(***************************************************************************)
EXTENDS Integers, Sequences, FiniteSets, TLC

VARIABLES
    questions_file,     \* the content of QUESTIONS_FILE: a sequence of JSON entries
    quiz_questions,     \* the loaded bank: a sequence of questions (index i is quiz_questions[i + 1])
    alive,              \* __alive
    received_answer,    \* __received_answer: None or the payload of the last handle_code
    asked_questions,    \* __asked_questions
    to_repeat,          \* __to_repeat
    picked_questions,   \* __picked_questions: sequence of bank indices, 0-based
    q_index,            \* local of __pick_question: the last random draw
    question,           \* local of run: index of the question being asked (-1 before the first pick)
    valid,              \* locals of run, set from __parse_answer
    repeat,
    answer,
    pc,                 \* position of the session thread
    completed,          \* number of calls of on_quiz_completed
    cues,               \* light and audio cues emitted since the top of the current iteration
    taken,              \* history: the payload read at line 146 of the current iteration
    lastDelivered,      \* history: the payload of the most recent handle_code
    delivered_at,       \* history: where the session was when the payload in the slot was delivered
    overwrote           \* history: the payload in the slot replaced one that was still in the slot

vars == <<questions_file, quiz_questions, alive, received_answer, asked_questions, to_repeat,
          picked_questions, q_index, question, valid, repeat, answer, pc,
          completed, cues, taken, lastDelivered, delivered_at, overwrote>>

shared == <<alive, received_answer, lastDelivered, delivered_at, overwrote>>

session == <<asked_questions, to_repeat, picked_questions, q_index, question,
             valid, repeat, answer, completed, cues, taken>>

----------------------------------------------------------------------------
(* Constants and bounds *)

QUESTIONS_LIMIT == 2

\* Largest bank the model loads.
MaxBank == 3

None == "None"

\* Payloads the producer delivers: the three recognised ones and one that is not.
Payloads == {"yes", "no", "repeat", "maybe"}

\* QuizAnswer
QuizAnswer == {"TRUE", "FALSE"}

\* QuizQuestion, after __parse_question: an empty explanation is stored as None.
QuizQuestion == [answer : QuizAnswer, explanation : {None, "expl"}]

\* An order on the four kinds of question.
Rank(q) ==
    (IF q.answer = "TRUE" THEN 0 ELSE 2) + (IF q.explanation = None THEN 0 ELSE 1)

\* The banks parse_file can return, up to MaxBank questions.  A question is
\* only ever reached through a uniformly drawn index, so a bank and any
\* reordering of it behave alike up to a renaming of the indices: one
\* ordering of each multiset of questions is loaded.
Banks ==
    {b \in UNION {[1..n -> QuizQuestion] : n \in 0..MaxBank} :
        \A i \in 1..(Len(b) - 1) : Rank(b[i]) <= Rank(b[i + 1])}

\* Where the session is with respect to its take of the slot (lines 138-148):
\* "waiting" from the entry of the wait loop to the read at line 146, "taking"
\* between that read and the clear at line 148, "busy" from the clear to the
\* next entry of the wait loop, "over" once run() has ended.
Phase(p) ==
    IF p = "init" THEN "unstarted"
    ELSE IF p \in {"wait", "parse"} THEN "waiting"
    ELSE IF p = "clear" THEN "taking"
    ELSE IF p \in {"notify", "done", "crashed"} THEN "over"
    ELSE "busy"

\* A mutant of DrawRange: the upper end is off by one.
DrawRange_Short == 0..(Len(quiz_questions) - 2)

\* lines 105 and 108: the values random.randint(0, len(self.__quiz_questions) - 1)
\* can return (none when the bank is empty: randint raises ValueError).
DrawRange == 0..(Len(quiz_questions) - 1)

Range(s) == {s[i] : i \in 1..Len(s)}

Led(a) == [dev |-> "led", id |-> a, q |-> -1]

Audio(a) == [dev |-> "audio", id |-> a, q |-> -1]

\* The audio cue of question i (get_audio_file) and of its explanation.
QuestionAudio(i) == [dev |-> "audio", id |-> "question", q |-> i]

ExplanationAudio(i) == [dev |-> "audio", id |-> "explanation", q |-> i]

----------------------------------------------------------------------------
(* QuestionFactory: the questions file and its parse *)

\* Longest questions file whose load is modelled entry by entry.
MaxFile == 2

\* The value of a key that the entry does not have.
Missing == "<missing>"

\* An entry of the questions file: "answer" may hold a value that is
\* neither "T" nor "F", and any key may be absent.
RawEntry ==
    [audio : {"q", Missing},
     answer : {"T", "F", "X", Missing},
     explanation : {"", "expl", Missing}]

RawFiles == UNION {[1..n -> RawEntry] : n \in 0..MaxFile}

\* lines 50-53: question["audio"], question["answer"] and
\* question["explanation"] each raise KeyError when the key is absent.
raises_KeyError(entry) ==
    Missing \in {entry.audio, entry.answer, entry.explanation}

\* lines 49-54: __parse_question, for an entry that has its three keys.
parse_question(entry) ==
    [answer |-> IF entry.answer = "T" THEN "TRUE" ELSE "FALSE",
     explanation |-> IF entry.explanation = "" THEN None ELSE entry.explanation]

\* lines 57-61: parse_file raises when an entry does, and otherwise returns
\* the parsed entries in order.
parse_file_raises(file) == \E i \in 1..Len(file) : raises_KeyError(file[i])

parse_file(file) == [i \in 1..Len(file) |-> parse_question(file[i])]

\* The well-formed entry that parses to question q, and the file of a bank.
entry_of(q) ==
    [audio |-> "q",
     answer |-> IF q.answer = "TRUE" THEN "T" ELSE "F",
     explanation |-> IF q.explanation = None THEN "" ELSE q.explanation]

file_of(bank) == [i \in 1..Len(bank) |-> entry_of(bank[i])]

----------------------------------------------------------------------------
(* __parse_answer: (valid, repeat, answer) *)

\* A mutant of parse_answer: "yes" and "no" are exchanged.
parse_answer_Swapped(answer_content) ==
    IF answer_content = None THEN <<FALSE, FALSE, None>>
    ELSE IF answer_content = "repeat" THEN <<TRUE, TRUE, None>>
    ELSE IF answer_content = "yes" THEN <<TRUE, FALSE, "FALSE">>
    ELSE IF answer_content = "no" THEN <<TRUE, FALSE, "TRUE">>
    ELSE <<FALSE, FALSE, None>>

parse_answer(answer_content) ==
    IF answer_content = None THEN <<FALSE, FALSE, None>>
    ELSE IF answer_content = "repeat" THEN <<TRUE, TRUE, None>>
    ELSE IF answer_content = "yes" THEN <<TRUE, FALSE, "TRUE">>
    ELSE IF answer_content = "no" THEN <<TRUE, FALSE, "FALSE">>
    ELSE <<FALSE, FALSE, None>>

----------------------------------------------------------------------------
(* __init__.  The locals of run and of __pick_question are unbound until    *)
(* their first assignment and are never read before it; they start at a     *)
(* placeholder.  Init is the state after a construction that loaded a       *)
(* well-formed file; LoadInit and construct below are the construction,     *)
(* from any file.                                                           *)

Init ==
    /\ quiz_questions \in Banks
    /\ questions_file = file_of(quiz_questions)
    /\ alive = TRUE
    /\ received_answer = None
    /\ asked_questions = 0
    /\ to_repeat = FALSE
    /\ picked_questions = <<>>
    /\ q_index = -1
    /\ question = -1
    /\ valid = FALSE
    /\ repeat = FALSE
    /\ answer = None
    /\ pc = "init"
    /\ completed = 0
    /\ cues = <<>>
    /\ taken = None
    /\ lastDelivered = None
    /\ delivered_at = "none"
    /\ overwrote = FALSE

----------------------------------------------------------------------------
(* The session thread *)

\* Thread.start(): run() begins.
start ==
    /\ pc = "init"
    /\ pc' = "loop"
    /\ UNCHANGED <<questions_file, quiz_questions, shared, session>>

\* line 131: while self.__alive
run_loop ==
    /\ pc = "loop"
    /\ IF alive
          THEN pc' = "pick" /\ cues' = <<>>
          ELSE pc' = "notify" /\ UNCHANGED cues
    /\ UNCHANGED <<questions_file, quiz_questions, shared, asked_questions, to_repeat,
                   picked_questions, q_index, question, valid, repeat, answer,
                   completed, taken>>

\* A mutant of pick_question: the repeat branch draws a new question.
pick_question_RepeatRedraws ==
    /\ pc = "pick"
    /\ to_repeat' = FALSE
    /\ UNCHANGED question
    /\ IF DrawRange = {}
          THEN pc' = "crashed" /\ UNCHANGED q_index
          ELSE /\ pc' = "resample"
               /\ q_index' \in DrawRange
    /\ UNCHANGED <<questions_file, quiz_questions, shared, asked_questions, picked_questions,
                   valid, repeat, answer, completed, cues, taken>>

\* A mutant of pick_question: the repeat branch returns the first picked index.
pick_question_RepeatsFirst ==
    /\ pc = "pick"
    /\ IF to_repeat
          THEN /\ to_repeat' = FALSE
               /\ IF picked_questions = <<>>
                     THEN pc' = "crashed" /\ UNCHANGED question
                     ELSE pc' = "ask" /\ question' = picked_questions[1]
               /\ UNCHANGED q_index
          ELSE /\ UNCHANGED <<to_repeat, question>>
               /\ IF DrawRange = {}
                     THEN pc' = "crashed" /\ UNCHANGED q_index
                     ELSE /\ pc' = "resample"
                          /\ q_index' \in DrawRange
    /\ UNCHANGED <<questions_file, quiz_questions, shared, asked_questions, picked_questions,
                   valid, repeat, answer, completed, cues, taken>>

\* lines 96-105: __pick_question up to the first draw.  The repeat branch
\* indexes the last picked index (IndexError on an empty list); randint on an
\* empty range raises ValueError; either ends the thread.
pick_question ==
    /\ pc = "pick"
    /\ IF to_repeat
          THEN /\ to_repeat' = FALSE
               /\ IF picked_questions = <<>>
                     THEN pc' = "crashed" /\ UNCHANGED question
                     ELSE /\ pc' = "ask"
                          /\ question' = picked_questions[Len(picked_questions)]
               /\ UNCHANGED q_index
          ELSE /\ UNCHANGED <<to_repeat, question>>
               /\ IF DrawRange = {}
                     THEN pc' = "crashed" /\ UNCHANGED q_index
                     ELSE /\ pc' = "resample"
                          /\ q_index' \in DrawRange
    /\ UNCHANGED <<questions_file, quiz_questions, shared, asked_questions, picked_questions,
                   valid, repeat, answer, completed, cues, taken>>

\* A mutant of pick_resample: the draw is accepted without the membership test.
pick_resample_NoRejection ==
    /\ pc = "resample"
    /\ picked_questions' = Append(picked_questions, q_index)
    /\ question' = q_index
    /\ pc' = "ask"
    /\ UNCHANGED q_index
    /\ UNCHANGED <<questions_file, quiz_questions, shared, asked_questions, to_repeat, valid,
                   repeat, answer, completed, cues, taken>>

\* A mutant of pick_resample: the accepted index is not recorded.
pick_resample_NoAppend ==
    /\ pc = "resample"
    /\ IF q_index \in Range(picked_questions)
          THEN /\ q_index' \in DrawRange
               /\ UNCHANGED <<pc, question>>
          ELSE /\ question' = q_index
               /\ pc' = "ask"
               /\ UNCHANGED q_index
    /\ UNCHANGED <<questions_file, quiz_questions, shared, asked_questions, to_repeat,
                   picked_questions, valid, repeat, answer, completed, cues, taken>>

\* lines 106-112: the rejection loop, one test of the loop condition per step.
pick_resample ==
    /\ pc = "resample"
    /\ IF q_index \in Range(picked_questions)
          THEN /\ q_index' \in DrawRange
               /\ UNCHANGED <<pc, picked_questions, question>>
          ELSE /\ picked_questions' = Append(picked_questions, q_index)
               /\ question' = q_index
               /\ pc' = "ask"
               /\ UNCHANGED q_index
    /\ UNCHANGED <<questions_file, quiz_questions, shared, asked_questions, to_repeat, valid,
                   repeat, answer, completed, cues, taken>>

\* lines 134-136: idle animation, then the question's audio (blocking).
run_ask ==
    /\ pc = "ask"
    /\ cues' = cues \o <<Led("IDLE"), QuestionAudio(question)>>
    /\ pc' = "wait"
    /\ UNCHANGED <<questions_file, quiz_questions, shared, asked_questions, to_repeat,
                   picked_questions, q_index, question, valid, repeat, answer,
                   completed, taken>>

\* lines 138-141: one test of the wait loop; an empty slot sleeps and tests again.
run_wait ==
    /\ pc = "wait"
    /\ pc' = IF received_answer = None THEN "wait" ELSE "parse"
    /\ UNCHANGED <<questions_file, quiz_questions, shared, session>>

\* line 146: read the slot and parse it.
run_parse ==
    /\ pc = "parse"
    /\ valid' = parse_answer(received_answer)[1]
    /\ repeat' = parse_answer(received_answer)[2]
    /\ answer' = parse_answer(received_answer)[3]
    /\ taken' = received_answer
    /\ pc' = "clear"
    /\ UNCHANGED <<questions_file, quiz_questions, alive, received_answer, lastDelivered,
                   delivered_at, overwrote, asked_questions, to_repeat, picked_questions,
                   q_index, question, completed, cues>>

\* line 148: clear the slot.
run_clear ==
    /\ pc = "clear"
    /\ received_answer' = None
    /\ lastDelivered' = None
    /\ delivered_at' = "none"
    /\ overwrote' = FALSE
    /\ pc' = "eval"
    /\ UNCHANGED <<questions_file, quiz_questions, alive, session>>

\* A mutant of run_evaluate: an invalid answer is counted as an asked question.
run_evaluate_CountsInvalid ==
    /\ pc = "eval"
    /\ cues' = IF ~valid THEN cues \o <<Led("ERROR"), Audio("validqr")>> ELSE cues
    /\ repeat' = (repeat \/ ~valid)
    /\ asked_questions' = IF ~valid THEN asked_questions + 1 ELSE asked_questions
    /\ IF repeat'
          THEN to_repeat' = TRUE /\ pc' = "loop"
          ELSE pc' = "feedback" /\ UNCHANGED to_repeat
    /\ UNCHANGED <<questions_file, quiz_questions, shared, picked_questions, q_index, question,
                   valid, answer, completed, taken>>

\* A mutant of run_evaluate: an invalid answer is repeated without its cues.
run_evaluate_SilentInvalid ==
    /\ pc = "eval"
    /\ repeat' = (repeat \/ ~valid)
    /\ IF repeat'
          THEN to_repeat' = TRUE /\ pc' = "loop"
          ELSE pc' = "feedback" /\ UNCHANGED to_repeat
    /\ UNCHANGED <<questions_file, quiz_questions, shared, asked_questions,
                   picked_questions, q_index, question, valid, answer,
                   completed, cues, taken>>

\* lines 150-165: invalid answer cues, and the repeat branch (continue).
run_evaluate ==
    /\ pc = "eval"
    /\ cues' = IF ~valid THEN cues \o <<Led("ERROR"), Audio("validqr")>> ELSE cues
    /\ repeat' = (repeat \/ ~valid)
    /\ IF repeat'
          THEN to_repeat' = TRUE /\ pc' = "loop"
          ELSE pc' = "feedback" /\ UNCHANGED to_repeat
    /\ UNCHANGED <<questions_file, quiz_questions, shared, asked_questions, picked_questions,
                   q_index, question, valid, answer, completed, taken>>

\* A mutant of run_feedback: the comparison is inverted.
run_feedback_Inverted ==
    /\ pc = "feedback"
    /\ cues' = IF quiz_questions[question + 1].answer # answer
                  THEN cues \o <<Led("SUCCESS"), Audio("correct")>>
                  ELSE cues \o <<Led("ERROR"), Audio("wrong")>>
    /\ pc' = "explain"
    /\ UNCHANGED <<questions_file, quiz_questions, shared, asked_questions, to_repeat,
                   picked_questions, q_index, question, valid, repeat, answer,
                   completed, taken>>

\* lines 168-175: right or wrong.
run_feedback ==
    /\ pc = "feedback"
    /\ cues' = IF quiz_questions[question + 1].answer = answer
                  THEN cues \o <<Led("SUCCESS"), Audio("correct")>>
                  ELSE cues \o <<Led("ERROR"), Audio("wrong")>>
    /\ pc' = "explain"
    /\ UNCHANGED <<questions_file, quiz_questions, shared, asked_questions, to_repeat,
                   picked_questions, q_index, question, valid, repeat, answer,
                   completed, taken>>

\* A mutant of run_explain: the explanation cue is played without the test.
run_explain_Always ==
    /\ pc = "explain"
    /\ cues' = cues \o <<Led("IDLE"), ExplanationAudio(question)>>
    /\ pc' = "advance"
    /\ UNCHANGED <<questions_file, quiz_questions, shared, asked_questions, to_repeat,
                   picked_questions, q_index, question, valid, repeat, answer,
                   completed, taken>>

\* lines 178-182: the explanation, when the question has one.
run_explain ==
    /\ pc = "explain"
    /\ cues' = IF quiz_questions[question + 1].explanation # None
                  THEN cues \o <<Led("IDLE"), ExplanationAudio(question)>>
                  ELSE cues
    /\ pc' = "advance"
    /\ UNCHANGED <<questions_file, quiz_questions, shared, asked_questions, to_repeat,
                   picked_questions, q_index, question, valid, repeat, answer,
                   completed, taken>>

\* A mutant of run_advance: the limit test is > instead of >=.
run_advance_StrictLimit ==
    /\ pc = "advance"
    /\ asked_questions' = asked_questions + 1
    /\ IF asked_questions' > QUESTIONS_LIMIT
          THEN /\ cues' = cues \o <<Led("IDLE"), Audio("endquiz")>>
               /\ alive' = FALSE
          ELSE UNCHANGED <<cues, alive>>
    /\ pc' = "loop"
    /\ UNCHANGED <<questions_file, quiz_questions, received_answer, lastDelivered, delivered_at,
                   overwrote, to_repeat, picked_questions, q_index, question, valid,
                   repeat, answer, completed, taken>>

\* A mutant of run_advance: the limit branch notifies the completion handler itself.
run_advance_NotifiesAtLimit ==
    /\ pc = "advance"
    /\ asked_questions' = asked_questions + 1
    /\ IF asked_questions' >= QUESTIONS_LIMIT
          THEN /\ cues' = cues \o <<Led("IDLE"), Audio("endquiz")>>
               /\ alive' = FALSE
               /\ completed' = completed + 1
          ELSE UNCHANGED <<cues, alive, completed>>
    /\ pc' = "loop"
    /\ UNCHANGED <<questions_file, quiz_questions, received_answer, lastDelivered, delivered_at,
                   overwrote, to_repeat, picked_questions, q_index, question, valid,
                   repeat, answer, taken>>

\* lines 184-191: count the question; at the limit play "endquiz" and stop().
run_advance ==
    /\ pc = "advance"
    /\ asked_questions' = asked_questions + 1
    /\ IF asked_questions' >= QUESTIONS_LIMIT
          THEN /\ cues' = cues \o <<Led("IDLE"), Audio("endquiz")>>
               /\ alive' = FALSE
          ELSE UNCHANGED <<cues, alive>>
    /\ pc' = "loop"
    /\ UNCHANGED <<questions_file, quiz_questions, received_answer, lastDelivered, delivered_at,
                   overwrote, to_repeat, picked_questions, q_index, question, valid,
                   repeat, answer, completed, taken>>

\* A mutant of run_notify: the end-of-quiz cue is played on every exit of the loop.
run_notify_PlaysEndquiz ==
    /\ pc = "notify"
    /\ cues' = cues \o <<Led("IDLE"), Audio("endquiz")>>
    /\ completed' = completed + 1
    /\ pc' = "done"
    /\ UNCHANGED <<questions_file, quiz_questions, shared, asked_questions, to_repeat,
                   picked_questions, q_index, question, valid, repeat, answer,
                   taken>>

\* line 194: on_quiz_completed()
run_notify ==
    /\ pc = "notify"
    /\ completed' = completed + 1
    /\ pc' = "done"
    /\ UNCHANGED <<questions_file, quiz_questions, shared, asked_questions, to_repeat,
                   picked_questions, q_index, question, valid, repeat, answer,
                   cues, taken>>

----------------------------------------------------------------------------
(* The other threads *)

\* lines 196-197: stop(), from any thread at any time.
stop ==
    /\ alive' = FALSE
    /\ UNCHANGED <<questions_file, quiz_questions, received_answer, lastDelivered, delivered_at,
                   overwrote, session, pc>>

\* A mutant of deliver: a payload is stored only in an empty slot.
deliver_KeepsFirst(code_content) ==
    /\ received_answer' = IF received_answer = None THEN code_content
                          ELSE received_answer
    /\ lastDelivered' = code_content
    /\ delivered_at' = Phase(pc)
    /\ overwrote' = (received_answer # None)
    /\ UNCHANGED <<questions_file, quiz_questions, alive, session, pc>>

\* lines 199-203: handle_code(code_content)
deliver(code_content) ==
    /\ received_answer' = code_content
    /\ lastDelivered' = code_content
    /\ delivered_at' = Phase(pc)
    /\ overwrote' = (received_answer # None)
    /\ UNCHANGED <<questions_file, quiz_questions, alive, session, pc>>

handle_code == \E code_content \in Payloads : deliver(code_content)

----------------------------------------------------------------------------

SessionStep ==
    \/ start
    \/ run_loop
    \/ pick_question
    \/ pick_resample
    \/ run_ask
    \/ run_wait
    \/ run_parse
    \/ run_clear
    \/ run_evaluate
    \/ run_feedback
    \/ run_explain
    \/ run_advance
    \/ run_notify

Next ==
    \/ SessionStep
    \/ stop
    \/ handle_code

Spec == Init /\ [][Next]_vars

\* lines 146-175: what an iteration does with payload c for question q.
answer_action(c, q) ==
    LET p == parse_answer(c)
    IN  IF ~p[1] THEN "Invalid"
        ELSE IF p[2] THEN "Repeat"
        ELSE IF quiz_questions[q + 1].answer = p[3] THEN "Correct"
        ELSE "Incorrect"

----------------------------------------------------------------------------
(* Liveness: a producer that only delivers "yes"/"no" and keeps doing so,   *)
(* a session thread that keeps being scheduled, and random draws that do    *)
(* not avoid an unused index for ever.                                      *)

deliver_answer == \E code_content \in {"yes", "no"} : deliver(code_content)

\* A draw of the rejection loop that lands on an unused index.
draw_fresh == pick_resample /\ q_index' \notin Range(picked_questions)

LiveNext ==
    \/ SessionStep
    \/ stop
    \/ deliver_answer

LiveSpec ==
    /\ Init
    /\ [][LiveNext]_vars
    /\ WF_vars(SessionStep)
    /\ WF_vars(draw_fresh)
    /\ WF_vars(deliver_answer)

----------------------------------------------------------------------------
(* Claims *)

\* C1: on_quiz_completed is called at most once, never while alive is true,
\* and exactly once in a run whose loop has exited: once the loop has exited
\* the call is the next step of the thread, and it has happened exactly when
\* run() has returned.
C1_CompletionOnce ==
    /\ completed <= 1
    /\ (completed >= 1 => ~alive)
    /\ (pc = "notify" => ~alive /\ completed = 0 /\ ENABLED run_notify)
    /\ (pc = "done" <=> completed = 1)

\* C1 witness: a run ended by an external stop() before the limit has notified once.
C1_Witness ==
    /\ pc = "done"
    /\ completed = 1
    /\ asked_questions < QUESTIONS_LIMIT

CanLeaveWait == ENABLED (SessionStep /\ pc' # "wait")

\* C3: after a stop() that arrives while the session waits on an empty slot,
\* the session can leave the wait without a further delivery.
C3_StopUnblocksWait ==
    [][(pc = "wait" /\ received_answer = None /\ alive /\ ~alive')
        => CanLeaveWait']_vars

\* C4: once a payload has been read and cleared, a payload delivered between
\* that clear and the next entry of the answer wait is never the payload the
\* session reads as an answer.
C4_LatePayloadDropped ==
    [][(pc = "parse" /\ pc' = "clear" /\ taken # None)
        => delivered_at # "busy"]_vars

\* C5: the clear never erases a payload other than the one that was read: no
\* payload delivered between the read and the clear is in the slot when it
\* is cleared.
C5_TakeAtomic ==
    [][(pc = "clear" /\ pc' = "eval") => delivered_at # "taking"]_vars

\* C6: the read returns the most recently delivered payload, the clear
\* leaves the slot empty, and an empty slot stays empty until a delivery
\* fills it with the delivered payload.
C6_LastWriteWins ==
    [][/\ (pc = "parse" /\ pc' = "clear") => taken' = lastDelivered
       /\ (pc = "clear" /\ pc' = "eval") => received_answer' = None
       /\ (received_answer = None /\ received_answer' # None)
            => (pc' = pc /\ received_answer' = lastDelivered')]_vars

\* C6 witness: a payload that overwrote an earlier one before the read has
\* just been read.
C6_Witness ==
    /\ pc = "clear"
    /\ overwrote
    /\ delivered_at \in {"waiting", "busy", "unstarted"}
    /\ taken = received_answer
    /\ taken = lastDelivered

\* C7: asked_questions never exceeds QUESTIONS_LIMIT, changes only by +1,
\* only at the count step of an iteration answered Correct or Incorrect, and
\* every such iteration goes through the count step.
C7_AskedCount ==
    /\ [](asked_questions <= QUESTIONS_LIMIT)
    /\ [](pc \in {"feedback", "explain", "advance"}
            => answer_action(taken, question) \in {"Correct", "Incorrect"})
    /\ [][/\ (asked_questions' # asked_questions)
              => (asked_questions' = asked_questions + 1 /\ pc = "advance")
          /\ (pc = "eval" /\ pc' # pc
                /\ answer_action(taken, question) \in {"Correct", "Incorrect"})
              => pc' = "feedback"
          /\ (pc = "feedback" /\ pc' # pc) => pc' = "explain"
          /\ (pc = "explain" /\ pc' # pc) => pc' = "advance"
          /\ (pc = "advance" /\ pc' # pc)
              => asked_questions' = asked_questions + 1]_vars

\* C7 witness: the limit is reached by a counted answer.
C7_Witness ==
    /\ asked_questions = QUESTIONS_LIMIT
    /\ pc = "loop"
    /\ answer_action(taken, question) \in {"Correct", "Incorrect"}

\* C8: from the read of a payload that is Repeat or Invalid to the end of
\* its iteration, asked_questions, picked_questions and alive are left
\* alone, and the iteration ends at the top of the loop with to_repeat set.
C8_RepeatInvalidFrame ==
    [][(/\ pc \in {"parse", "clear", "eval"}
        /\ pc' # pc
        /\ answer_action(taken', question) \in {"Repeat", "Invalid"})
       => /\ asked_questions' = asked_questions
          /\ picked_questions' = picked_questions
          /\ question' = question
          /\ alive' = alive
          /\ completed' = completed
          /\ to_repeat' = (pc = "eval")
          /\ pc' = (IF pc = "parse" THEN "clear"
                    ELSE IF pc = "clear" THEN "eval" ELSE "loop")]_vars

\* C8 witness: an Invalid answer to the second question has set to_repeat.
C8_Witness ==
    /\ pc = "loop"
    /\ to_repeat
    /\ taken = "maybe"
    /\ asked_questions = 1
    /\ Len(picked_questions) = 2

\* C9: picked_questions holds no index twice.
C9_NoDuplicatePick ==
    \A i, j \in 1..Len(picked_questions) :
        i # j => picked_questions[i] # picked_questions[j]

\* C9 witness: two questions picked, the second one asked again after a repeat.
C9_Witness ==
    /\ Len(picked_questions) = 2
    /\ pc = "ask"
    /\ taken \in {"repeat", "maybe"}
    /\ asked_questions = 1

\* C10: a pick with to_repeat set clears it, returns the last picked index,
\* which is the question just asked, and leaves picked_questions alone;
\* to_repeat is only ever set between the repeat branch and that pick.
C10_RepeatPick ==
    /\ [](to_repeat => (pc \in {"loop", "pick", "notify", "done"}
                          /\ picked_questions # <<>>))
    /\ [][(pc = "pick" /\ to_repeat /\ pc' # pc)
          => /\ ~to_repeat'
             /\ picked_questions' = picked_questions
             /\ question' = picked_questions[Len(picked_questions)]
             /\ question' = question
             /\ pc' = "ask"]_vars

\* C10 witness: the repeat branch has returned the second question again.
C10_Witness ==
    /\ pc = "ask"
    /\ repeat
    /\ ~to_repeat
    /\ Len(picked_questions) = 2
    /\ question = picked_questions[2]

\* C11: picked_questions never holds more than QUESTIONS_LIMIT indices, and
\* QUESTIONS_LIMIT is at most the size of the loaded bank.
C11_SizeBounds ==
    /\ Len(picked_questions) <= QUESTIONS_LIMIT
    /\ QUESTIONS_LIMIT <= Len(quiz_questions)

\* C12: an Invalid payload changes the session state exactly as a Repeat
\* payload does (to_repeat set, counters and picked indices untouched, back
\* to the top of the loop, the same question picked next); the one
\* difference is that Invalid emits the ERROR light cue and the "validqr"
\* audio cue, and Repeat emits nothing.
C12_InvalidLikeRepeat ==
    /\ [][(/\ pc = "eval"
            /\ pc' # pc
            /\ answer_action(taken, question) \in {"Repeat", "Invalid"})
           => /\ to_repeat'
              /\ pc' = "loop"
              /\ asked_questions' = asked_questions
              /\ picked_questions' = picked_questions
              /\ question' = question
              /\ alive' = alive
              /\ cues' = IF answer_action(taken, question) = "Invalid"
                            THEN cues \o <<Led("ERROR"), Audio("validqr")>>
                            ELSE cues]_vars
    /\ [][(pc = "pick" /\ to_repeat /\ pc' # pc)
           => (pc' = "ask" /\ question' = question)]_vars

\* C12 witness: an unrecognised payload has been rejected with its two cues
\* and the question is about to be repeated.
C12_Witness ==
    /\ pc = "loop"
    /\ to_repeat
    /\ taken = "maybe"
    /\ cues = <<Led("IDLE"), QuestionAudio(question), Led("ERROR"), Audio("validqr")>>

\* lines 150-175: what run does with its locals valid, repeat and answer.
local_action ==
    IF ~valid THEN "Invalid"
    ELSE IF repeat THEN "Repeat"
    ELSE IF quiz_questions[question + 1].answer = answer THEN "Correct"
    ELSE "Incorrect"

\* The interpretation table of the answer protocol.
expected_action(payload, expected_answer) ==
    IF payload = "repeat" THEN "Repeat"
    ELSE IF payload = "yes"
        THEN (IF expected_answer = "TRUE" THEN "Correct" ELSE "Incorrect")
    ELSE IF payload = "no"
        THEN (IF expected_answer = "TRUE" THEN "Incorrect" ELSE "Correct")
    ELSE "Invalid"

\* C13: the interpretation depends only on the payload and on the expected
\* answer of the question, and follows the table: "repeat" is Repeat, "yes"
\* and "no" are Correct or Incorrect by comparison with the expected answer,
\* anything else (None and the empty string included) is Invalid; and the
\* locals of run after the parse carry that interpretation of the payload
\* that was read.
C13_Interpretation ==
    /\ \A i \in 1..Len(quiz_questions) :
          \A c \in Payloads \cup {None, ""} :
              answer_action(c, i - 1) = expected_action(c, quiz_questions[i].answer)
    /\ (pc \in {"clear", "eval"}
          => local_action = expected_action(taken, quiz_questions[question + 1].answer))

\* C13 witness: "no" has been read for a question whose answer is TRUE.
C13_Witness ==
    /\ pc = "eval"
    /\ taken = "no"
    /\ quiz_questions[question + 1].answer = "TRUE"
    /\ local_action = "Incorrect"

\* An explanation cue is among the cues of the current iteration.
ExplanationPlayed == \E i \in 1..Len(cues) : cues[i].id = "explanation"

\* The current iteration was answered Correct or Incorrect by a question
\* whose entry in the questions file has a non-empty explanation.
ExplanationDue ==
    /\ answer_action(taken, question) \in {"Correct", "Incorrect"}
    /\ questions_file[question + 1].explanation # ""

\* C14: at the end of every iteration the explanation cue has been played
\* if and only if the answer was Correct or Incorrect and the question's
\* explanation is non-empty; it is played once, for the question asked, after
\* the feedback, and never in an iteration answered Repeat or Invalid.
C14_ExplanationIff ==
    /\ (pc \in {"advance", "loop"} /\ cues # <<>>)
          => (ExplanationPlayed <=> ExplanationDue)
    /\ ExplanationPlayed
          => /\ ExplanationDue
             /\ pc \in {"advance", "loop", "notify", "done"}
             /\ Cardinality({i \in 1..Len(cues) : cues[i].id = "explanation"}) = 1
             /\ ExplanationAudio(question) \in Range(cues)
    /\ (pc \in {"wait", "parse", "clear", "eval", "feedback", "explain"})
          => ~ExplanationPlayed

\* C14 witness: a wrong answer to a question with an explanation has been
\* followed by the explanation.
C14_Witness ==
    /\ pc = "advance"
    /\ answer_action(taken, question) = "Incorrect"
    /\ quiz_questions[question + 1].explanation = "expl"
    /\ ExplanationAudio(question) \in Range(cues)

----------------------------------------------------------------------------
(* Playback failures.  SpeakerManager.start_track_and_wait fails with a     *)
(* PlaybackError for a cue it does not know; run() has no handler around    *)
(* any of its calls, so the exception leaves run() and ends the thread.     *)

PlaybackError == [dev |-> "audio", id |-> "PlaybackError", q |-> -1]

\* The audio call the session is about to make raises: the statements before
\* it in the same step have run, the rest of run() has not.
playback_fails ==
    /\ \/ /\ pc = "ask"
          /\ cues' = cues \o <<Led("IDLE"), PlaybackError>>
          /\ UNCHANGED asked_questions
       \/ /\ pc = "eval" /\ ~valid
          /\ cues' = cues \o <<Led("ERROR"), PlaybackError>>
          /\ UNCHANGED asked_questions
       \/ /\ pc = "feedback"
          /\ cues' = cues \o <<Led(IF quiz_questions[question + 1].answer = answer
                                     THEN "SUCCESS" ELSE "ERROR"), PlaybackError>>
          /\ UNCHANGED asked_questions
       \/ /\ pc = "explain" /\ quiz_questions[question + 1].explanation # None
          /\ cues' = cues \o <<Led("IDLE"), PlaybackError>>
          /\ UNCHANGED asked_questions
       \/ /\ pc = "advance" /\ asked_questions + 1 >= QUESTIONS_LIMIT
          /\ asked_questions' = asked_questions + 1
          /\ cues' = cues \o <<Led("IDLE"), PlaybackError>>
    /\ pc' = "crashed"
    /\ UNCHANGED <<questions_file, quiz_questions, shared, to_repeat,
                   picked_questions, q_index, question, valid, repeat, answer,
                   completed, taken>>

FaultNext ==
    \/ Next
    \/ playback_fails

FaultSpec == Init /\ [][FaultNext]_vars

\* C15: after a playback failure the session thread still has a next step,
\* or has notified its completion handler.
C15_PlaybackNonFatal ==
    (PlaybackError \in Range(cues))
        => (pc = "done" /\ completed = 1) \/ ENABLED SessionStep

\* C16: a bank with fewer than QUESTIONS_LIMIT questions is refused at
\* construction, so no session is ever inside the rejection loop of a pick
\* with every index of the bank already picked.
C16_NoStuckPick ==
    ~(/\ pc = "resample"
      /\ q_index \in Range(picked_questions)
      /\ DrawRange \subseteq Range(picked_questions))

----------------------------------------------------------------------------
(* Construction from any questions file *)

LoadInit ==
    /\ questions_file \in RawFiles
    /\ quiz_questions = <<>>
    /\ alive = TRUE
    /\ received_answer = None
    /\ asked_questions = 0
    /\ to_repeat = FALSE
    /\ picked_questions = <<>>
    /\ q_index = -1
    /\ question = -1
    /\ valid = FALSE
    /\ repeat = FALSE
    /\ answer = None
    /\ pc = "construct"
    /\ completed = 0
    /\ cues = <<>>
    /\ taken = None
    /\ lastDelivered = None
    /\ delivered_at = "none"
    /\ overwrote = FALSE

\* line 94: __init__ loads the bank; an exception of parse_file leaves
\* __init__ and no controller exists.
construct ==
    /\ pc = "construct"
    /\ IF parse_file_raises(questions_file)
          THEN pc' = "load_failed" /\ UNCHANGED quiz_questions
          ELSE pc' = "init" /\ quiz_questions' = parse_file(questions_file)
    /\ UNCHANGED <<questions_file, shared, session>>

LoadNext == construct

LoadSpec == LoadInit /\ [][LoadNext]_vars

\* An entry the loader has to refuse: an answer other than "T" or "F", or
\* no audio cue id.
Malformed(entry) == entry.answer \notin {"T", "F"} \/ entry.audio = Missing

\* C17: a file with a malformed entry fails to load and yields no bank; in a
\* bank that is loaded, "T" is the answer TRUE and "F" the answer FALSE.
C17_LoadFailFast ==
    /\ (pc # "construct" /\ \E i \in 1..Len(questions_file) : Malformed(questions_file[i]))
          => (pc = "load_failed" /\ quiz_questions = <<>>)
    /\ (pc = "init")
          => /\ Len(quiz_questions) = Len(questions_file)
             /\ \A i \in 1..Len(questions_file) :
                   /\ questions_file[i].answer = "T" => quiz_questions[i].answer = "TRUE"
                   /\ questions_file[i].answer = "F" => quiz_questions[i].answer = "FALSE"

\* The positions of the feedback audio cues among the cues of the iteration.
FeedbackCues == {i \in 1..Len(cues) : cues[i].id \in {"correct", "wrong"}}

\* C18: the feedback step of an answered question emits SUCCESS and
\* "correct" when the claimed answer is the expected one, ERROR and "wrong"
\* when it is not; an answered iteration holds exactly one feedback pair, an
\* iteration answered Repeat or Invalid holds none.
C18_Feedback ==
    /\ [][(pc = "feedback" /\ pc' # pc)
           => cues' = cues \o
                (IF expected_action(taken, quiz_questions[question + 1].answer) = "Correct"
                    THEN <<Led("SUCCESS"), Audio("correct")>>
                    ELSE <<Led("ERROR"), Audio("wrong")>>)]_vars
    /\ [](pc \in {"explain", "advance"} => Cardinality(FeedbackCues) = 1)
    /\ [](Cardinality(FeedbackCues) <= 1)
    /\ [](FeedbackCues # {}
            => expected_action(taken, quiz_questions[question + 1].answer)
                  \in {"Correct", "Incorrect"})
    /\ [](Led("SUCCESS") \in Range(cues) <=> Audio("correct") \in Range(cues))
    /\ [](Audio("wrong") \in Range(cues) => Led("ERROR") \in Range(cues))

\* C18 witness: "no" to a question whose answer is FALSE has been followed
\* by the success pair.
C18_Witness ==
    /\ pc = "explain"
    /\ taken = "no"
    /\ quiz_questions[question + 1].answer = "FALSE"
    /\ cues = <<Led("IDLE"), QuestionAudio(question), Led("SUCCESS"), Audio("correct")>>

\* The positions of the end-of-quiz cue among the cues since the top of the
\* last iteration.
EndquizCues == {i \in 1..Len(cues) : cues[i].id = "endquiz"}

\* C19: "endquiz" is only played when the count reaches QUESTIONS_LIMIT,
\* once, as the last cue of the last iteration, after that iteration's
\* feedback (and explanation); no cue follows it, so nothing is played
\* between it and the completion notification; a session that reaches the
\* limit has played it before it leaves the loop, and a session that ends
\* below the limit has not played it.
C19_Endquiz ==
    /\ [](EndquizCues # {}
            => /\ asked_questions = QUESTIONS_LIMIT
               /\ ~alive
               /\ pc \in {"loop", "notify", "done"}
               /\ EndquizCues = {Len(cues)}
               /\ FeedbackCues # {}
               /\ \A i \in FeedbackCues : i < Len(cues)
               /\ \A i \in 1..Len(cues) : cues[i].id = "explanation" => i < Len(cues))
    /\ []((asked_questions = QUESTIONS_LIMIT /\ pc \in {"loop", "notify", "done"})
            => EndquizCues # {})
    /\ []((pc \in {"notify", "done"} /\ asked_questions < QUESTIONS_LIMIT)
            => EndquizCues = {})
    /\ [][EndquizCues # {} => (cues' = cues /\ completed' \in {completed, 1})]_vars

\* C19 witness: a session that reached the limit has completed, and the
\* cues of its last iteration end with the explanation followed by "endquiz".
C19_Witness ==
    /\ pc = "done"
    /\ completed = 1
    /\ asked_questions = QUESTIONS_LIMIT
    /\ Len(cues) = 8
    /\ cues[6] = ExplanationAudio(question)
    /\ cues[8] = Audio("endquiz")

----------------------------------------------------------------------------
(* The older controller, Quiz_Questions/QuizController.py.  Its bank is the  *)
(* module-level list of three questions; __init__ assigns __alive,           *)
(* __received_answer and __asked_questions only, so __picked_questions is    *)
(* an annotation without a value and its first read, at line 61, raises      *)
(* AttributeError: run() never gets past its first pick, and the rest of     *)
(* run() is unreachable.  The class defines no handle_code.                  *)

\* lines 32-36: quiz_questions
V1Bank ==
    <<[answer |-> "TRUE", explanation |-> None],
      [answer |-> "FALSE", explanation |-> None],
      [answer |-> "TRUE", explanation |-> None]>>

\* The value of an attribute that was never assigned.
Unset == "<unset>"

V1Pcs == {"v1_init", "v1_loop", "v1_pick", "v1_test", "v1_crashed", "v1_done"}

\* lines 60 and 63: the values random.randint(0, len(quiz_questions)) can
\* return; randint includes both ends.
V1DrawRange == 0..Len(quiz_questions)

\* lines 52-56: __init__
V1Init ==
    /\ questions_file = <<>>
    /\ quiz_questions = V1Bank
    /\ alive = TRUE
    /\ received_answer = None
    /\ asked_questions = 0
    /\ to_repeat = FALSE
    /\ picked_questions = Unset
    /\ q_index = -1
    /\ question = -1
    /\ valid = FALSE
    /\ repeat = FALSE
    /\ answer = None
    /\ pc = "v1_init"
    /\ completed = 0
    /\ cues = <<>>
    /\ taken = None
    /\ lastDelivered = None
    /\ delivered_at = "none"
    /\ overwrote = FALSE

\* Thread.start(): run() begins.
v1_start ==
    /\ pc = "v1_init"
    /\ pc' = "v1_loop"
    /\ UNCHANGED <<questions_file, quiz_questions, shared, session>>

\* line 84: while self.__alive
v1_run_loop ==
    /\ pc = "v1_loop"
    /\ pc' = IF alive THEN "v1_pick" ELSE "v1_done"
    /\ UNCHANGED <<questions_file, quiz_questions, shared, session>>

\* line 60: the draw.
v1_pick_draw ==
    /\ pc = "v1_pick"
    /\ q_index' \in V1DrawRange
    /\ pc' = "v1_test"
    /\ UNCHANGED <<questions_file, quiz_questions, shared, asked_questions,
                   to_repeat, picked_questions, question, valid, repeat,
                   answer, completed, cues, taken>>

\* line 61: q_index in self.__picked_questions raises AttributeError.
v1_pick_test ==
    /\ pc = "v1_test"
    /\ pc' = "v1_crashed"
    /\ UNCHANGED <<questions_file, quiz_questions, shared, session>>

V1Step ==
    \/ v1_start
    \/ v1_run_loop
    \/ v1_pick_draw
    \/ v1_pick_test

\* Either controller is constructed and run.
BothInit == Init \/ V1Init

\* handle_code of the phase2 controller; the older one has none.
phase2_handle_code == pc \notin V1Pcs /\ handle_code

BothNext ==
    \/ SessionStep
    \/ V1Step
    \/ stop
    \/ phase2_handle_code

BothSpec == BothInit /\ [][BothNext]_vars

\* C20: in both controllers, an index drawn by the sampler to index the
\* bank lies in [0, len(bank)), and so does the index of the question asked.
C20_DrawInRange ==
    /\ (pc \in {"resample", "v1_test"})
          => q_index \in 0..(Len(quiz_questions) - 1)
    /\ (question # -1) => question \in 0..(Len(quiz_questions) - 1)

----------------------------------------------------------------------------
(* C21, C22: the picked list against the repeat flag and the counter *)

\* C21: whenever to_repeat is set, picked_questions is non-empty and its last
\* entry indexes the bank, so the repeat branch of the pick never fails; the
\* flag is clear until the first question has been picked, whatever payload
\* is in the slot and whenever it was delivered.
C21_RepeatHasPick ==
    /\ [](to_repeat
            => /\ picked_questions # <<>>
               /\ picked_questions[Len(picked_questions)] \in DrawRange)
    /\ [](picked_questions = <<>> => ~to_repeat)
    /\ [][(pc = "pick" /\ to_repeat) => pc' # "crashed"]_vars

\* C21 witness: the first payload of the session, a repeat or an invalid one,
\* has set to_repeat on the first question and the pick is about to take its
\* repeat branch.
C21_Witness ==
    /\ pc = "pick"
    /\ to_repeat
    /\ taken \in {"repeat", "maybe"}
    /\ asked_questions = 0
    /\ Len(picked_questions) = 1

\* The session holds a picked question that has not been counted yet: from
\* the append of line 110 to the count of line 185, repeats included.
InQuestion ==
    \/ pc \in {"ask", "wait", "parse", "clear", "eval", "feedback", "explain", "advance"}
    \/ to_repeat

\* C22: a session that has ended with asked_questions at QUESTIONS_LIMIT
\* holds exactly QUESTIONS_LIMIT distinct indices in picked_questions, and
\* asked_questions is QUESTIONS_LIMIT whenever the limit has stopped the
\* session; at every point the length of picked_questions is asked_questions
\* while no question is open and asked_questions + 1 while one is.
C22_PickedMatchesAsked ==
    /\ [](Len(picked_questions) = asked_questions + (IF InQuestion THEN 1 ELSE 0))
    /\ []((pc \in {"notify", "done"} /\ asked_questions = QUESTIONS_LIMIT)
            => /\ Len(picked_questions) = QUESTIONS_LIMIT
               /\ Cardinality(Range(picked_questions)) = QUESTIONS_LIMIT
               /\ Range(picked_questions) \subseteq DrawRange)
    /\ [][(pc = "advance" /\ pc' # pc /\ asked_questions' >= QUESTIONS_LIMIT)
          => /\ asked_questions' = QUESTIONS_LIMIT
             /\ ~alive'
             /\ Len(picked_questions') = QUESTIONS_LIMIT]_vars

\* C22 witness: the session has completed at the limit, its last counted
\* question answered, with QUESTIONS_LIMIT indices picked.
C22_Witness ==
    /\ pc = "done"
    /\ completed = 1
    /\ asked_questions = QUESTIONS_LIMIT
    /\ Len(picked_questions) = QUESTIONS_LIMIT
    /\ taken \in {"yes", "no"}

====
